---- MODULE Spec2Model ----
(***************************************************************************)
(* A model of markdown2html.py: the inline substitution passes, the block  *)
(* parsers, the line scan of convert_markdown_to_html and the driver main. *)
(* Text is a sequence of one-character strings.                            *)
(***************************************************************************)
EXTENDS Integers, Sequences, FiniteSets, TLC

\* Body(v) with v evaluated once: TLC evaluates an argument of an operator
\* anew at each use, and a bound variable only once.
Bind(v, Body(_)) == CHOOSE r \in {Body(x) : x \in {v}} : TRUE

(***************************************************************************)
(* Characters and their byte values (str.encode() of ASCII text).          *)
(***************************************************************************)
\* The printable ASCII characters, Ascii[k] being chr(31 + k); the backslash and
\* the backtick, which no text of the model contains, are written out as words.
Ascii ==
  <<" ", "!", "\"", "#", "$", "%", "&", "'", "(", ")", "*", "+", ",", "-", ".", "/",
     "0", "1", "2", "3", "4", "5", "6", "7", "8", "9", ":", ";", "<", "=", ">", "?",
     "@", "A", "B", "C", "D", "E", "F", "G", "H", "I", "J", "K", "L", "M", "N", "O",
     "P", "Q", "R", "S", "T", "U", "V", "W", "X", "Y", "Z", "[", "backslash", "]", "^", "_",
     "backtick", "a", "b", "c", "d", "e", "f", "g", "h", "i", "j", "k", "l", "m", "n", "o",
     "p", "q", "r", "s", "t", "u", "v", "w", "x", "y", "z", "{", "|", "}", "~">>

\* ord(ch) for a printable ASCII character or one of the control characters
\* that the model's texts use.
Ord(ch) ==
  CASE ch = "\t" -> 9
    [] ch = "\n" -> 10
    [] ch = "\f" -> 12
    [] ch = "\r" -> 13
    [] OTHER -> 31 + (CHOOSE k \in 1..Len(Ascii) : Ascii[k] = ch)

\* text.encode(): the bytes of the text.
Encode(text) == [k \in 1..Len(text) |-> Ord(text[k])]

(***************************************************************************)
(* hashlib.md5(...).hexdigest(), RFC 1321.  A 32-bit word is the pair      *)
(* <<high 16 bits, low 16 bits>>, so that no sum leaves the integers TLC   *)
(* computes with.                                                          *)
(***************************************************************************)
\* Bitwise and of two 4-bit numbers, tabulated.
AndNibble ==
  [a \in 0..15 |-> [b \in 0..15 |->
      ((a % 2) * (b % 2))
    + 2 * (((a \div 2) % 2) * ((b \div 2) % 2))
    + 4 * (((a \div 4) % 2) * ((b \div 4) % 2))
    + 8 * ((a \div 8) * (b \div 8))]]

\* Bitwise operations on 16-bit numbers.
And16(a, b) ==
  Bind([k \in 0..3 |-> AndNibble[(a \div (16 ^ k)) % 16][(b \div (16 ^ k)) % 16]],
       LAMBDA n : n[0] + 16 * n[1] + 256 * n[2] + 4096 * n[3])

Or16(a, b) == Bind(And16(a, b), LAMBDA c : a + b - c)

Xor16(a, b) == Bind(And16(a, b), LAMBDA c : a + b - 2 * c)

Not16(a) == 65535 - a

\* Bitwise operations on words.
WAnd(x, y) == [k \in 1..2 |-> And16(x[k], y[k])]

WOr(x, y) == [k \in 1..2 |-> Or16(x[k], y[k])]

WXor(x, y) == [k \in 1..2 |-> Xor16(x[k], y[k])]

WNot(x) == [k \in 1..2 |-> Not16(x[k])]

\* Addition modulo 2^32.
WAdd(x, y) ==
  Bind(x[2] + y[2],
       LAMBDA lo : <<(x[1] + y[1] + (lo \div 65536)) % 65536, lo % 65536>>)

\* Rotation to the left by s bits, 0 < s < 32.
WRotl(x, s) ==
  Bind(<<IF s >= 16 THEN <<x[2], x[1]>> ELSE x, 2 ^ (s % 16), 2 ^ (16 - (s % 16))>>,
       LAMBDA a : <<((a[1][1] * a[2]) % 65536) + (a[1][2] \div a[3]),
                    ((a[1][2] * a[2]) % 65536) + (a[1][1] \div a[3])>>)

\* The per-round shift amounts.
MD5Shift ==
  <<7, 12, 17, 22, 7, 12, 17, 22, 7, 12, 17, 22, 7, 12, 17, 22,
    5, 9, 14, 20, 5, 9, 14, 20, 5, 9, 14, 20, 5, 9, 14, 20,
    4, 11, 16, 23, 4, 11, 16, 23, 4, 11, 16, 23, 4, 11, 16, 23,
    6, 10, 15, 21, 6, 10, 15, 21, 6, 10, 15, 21, 6, 10, 15, 21>>

\* The constants floor(2^32 * abs(sin(k))), k = 1..64.
MD5K ==
  <<<<55146, 42104>>, <<59591, 46934>>, <<9248, 28891>>, <<49597, 52974>>,
     <<62844, 4015>>, <<18311, 50730>>, <<43056, 17939>>, <<64838, 38145>>,
     <<27008, 39128>>, <<35652, 63407>>, <<65535, 23473>>, <<35164, 55230>>,
     <<27536, 4386>>, <<64920, 29075>>, <<42617, 17294>>, <<18868, 2081>>,
     <<63006, 9570>>, <<49216, 45888>>, <<9822, 23121>>, <<59830, 51114>>,
     <<54831, 4189>>, <<580, 5203>>, <<55457, 59009>>, <<59347, 64456>>,
     <<8673, 52710>>, <<49975, 2006>>, <<62677, 3463>>, <<17754, 5357>>,
     <<43491, 59653>>, <<64751, 41976>>, <<26479, 729>>, <<36138, 19594>>,
     <<65530, 14658>>, <<34673, 63105>>, <<28061, 24866>>, <<64997, 14348>>,
     <<42174, 59972>>, <<19422, 53161>>, <<63163, 19296>>, <<48831, 48240>>,
     <<10395, 32454>>, <<60065, 10234>>, <<54511, 12421>>, <<1160, 7429>>,
     <<55764, 53305>>, <<59099, 39397>>, <<8098, 31992>>, <<50348, 22117>>,
     <<62505, 8772>>, <<17194, 65431>>, <<43924, 9127>>, <<64659, 41017>>,
     <<25947, 22979>>, <<36620, 52370>>, <<65519, 62589>>, <<34180, 24017>>,
     <<28584, 32335>>, <<65068, 59104>>, <<41729, 17172>>, <<19976, 4513>>,
     <<63315, 32386>>, <<48442, 62005>>, <<10967, 53947>>, <<60294, 54161>>>>

\* The initial chaining value A, B, C, D.
MD5Init == <<<<26437, 8961>>, <<61389, 43913>>, <<39098, 56574>>, <<4146, 21622>>>>

\* The message padded to a multiple of 64 bytes: 0x80, zeros, and the length
\* in bits as 8 little-endian bytes.
MD5Pad(bytes) ==
  Bind(Len(bytes),
       LAMBDA n : bytes \o <<128>> \o [k \in 1..((119 - (n % 64)) % 64) |-> 0]
                    \o <<(8 * n) % 256, ((8 * n) \div 256) % 256,
                         ((8 * n) \div 65536) % 256, (8 * n) \div 16777216,
                         0, 0, 0, 0>>)

\* Word g (0..15) of block b (0-based) of the padded message, little-endian.
MD5Word(padded, b, g) ==
  Bind(64 * b + 4 * g,
       LAMBDA o : <<padded[o + 3] + 256 * padded[o + 4], padded[o + 1] + 256 * padded[o + 2]>>)

\* The round function of step k on the words B, C, D.
MD5F(k, B, C, D) ==
  CASE k < 16 -> Bind(<<WAnd(B, C), WAnd(WNot(B), D)>>, LAMBDA a : WOr(a[1], a[2]))
    [] k >= 16 /\ k < 32 -> Bind(<<WAnd(D, B), WAnd(WNot(D), C)>>, LAMBDA a : WOr(a[1], a[2]))
    [] k >= 32 /\ k < 48 -> Bind(WXor(C, D), LAMBDA a : WXor(B, a))
    [] OTHER -> Bind(WOr(B, WNot(D)), LAMBDA a : WXor(C, a))

\* The index of the message word that step k reads.
MD5G(k) ==
  CASE k < 16 -> k
    [] k >= 16 /\ k < 32 -> (5 * k + 1) % 16
    [] k >= 32 /\ k < 48 -> (3 * k + 5) % 16
    [] OTHER -> (7 * k) % 16

\* One of the 64 steps (k = 0..63) on the state st = <<A, B, C, D>>:
\* F := F + A + K[k] + M[g]; A, D, C, B := D, C, B, B + rotl(F, s[k]).
MD5Step(st, k, padded, b) ==
  Bind(<<MD5F(k, st[2], st[3], st[4]), WAdd(MD5K[k + 1], MD5Word(padded, b, MD5G(k)))>>,
    LAMBDA f : Bind(WAdd(f[1], st[1]),
      LAMBDA fa : Bind(WAdd(fa, f[2]),
        LAMBDA T : Bind(WRotl(T, MD5Shift[k + 1]),
          LAMBDA r : <<st[4], WAdd(st[2], r), st[2], st[3]>>))))

\* Steps lo, lo+1, ..., hi applied in this order to the state st of four
\* words; the range is halved so that the evaluation stays shallow.
RECURSIVE MD5Steps(_, _, _, _, _)
MD5Steps(st, lo, hi, padded, b) ==
  IF lo < hi
  THEN Bind(MD5Steps(st, lo, (lo + hi) \div 2, padded, b),
            LAMBDA half : MD5Steps(half, ((lo + hi) \div 2) + 1, hi, padded, b))
  ELSE MD5Step(st, lo, padded, b)

\* The chaining value after blocks b, b+1, ... of the padded message.
RECURSIVE MD5Blocks(_, _, _)
MD5Blocks(h, padded, b) ==
  IF 64 * b >= Len(padded) THEN h
  ELSE Bind(MD5Steps(h, 0, 63, padded, b),
            LAMBDA st : MD5Blocks([k \in 1..4 |-> WAdd(h[k], st[k])], padded, b + 1))

HexDigits == <<"0", "1", "2", "3", "4", "5", "6", "7", "8", "9", "a", "b", "c", "d", "e", "f">>

\* Two lowercase hexadecimal digits of a byte.
HexByte(v) == <<HexDigits[(v \div 16) + 1], HexDigits[(v % 16) + 1]>>

\* The 8 hexadecimal digits of a word, least significant byte first.
HexWord(w) ==
  HexByte(w[2] % 256) \o HexByte(w[2] \div 256) \o HexByte(w[1] % 256) \o HexByte(w[1] \div 256)

\* md5_hash with the digest in uppercase, as hexdigest().upper() gives it.
md5_hash_upper(text) ==
  Bind(MD5Blocks(MD5Init, MD5Pad(Encode(text)), 0),
       LAMBDA h : [k \in 1..32 |->
         Bind((HexWord(h[1]) \o HexWord(h[2]) \o HexWord(h[3]) \o HexWord(h[4]))[k],
              LAMBDA ch : CASE ch = "a" -> "A" [] ch = "b" -> "B" [] ch = "c" -> "C"
                            [] ch = "d" -> "D" [] ch = "e" -> "E" [] ch = "f" -> "F"
                            [] OTHER -> ch)])

\* md5_hash: the lowercase hexadecimal MD5 digest of the text's bytes.
md5_hash(text) ==
  Bind(MD5Blocks(MD5Init, MD5Pad(Encode(text)), 0),
       LAMBDA h : HexWord(h[1]) \o HexWord(h[2]) \o HexWord(h[3]) \o HexWord(h[4]))

(***************************************************************************)
(* The inline transformer: four re.sub passes over the whole text.         *)
(***************************************************************************)
\* The text has the delimiter d at position p.
StartsAt(t, p, d) ==
  /\ p >= 1
  /\ p + Len(d) - 1 <= Len(t)
  /\ SubSeq(t, p, p + Len(d) - 1) = d

\* The least element of a non-empty set of numbers.
Least(S) == CHOOSE k \in S : \A j \in S : k <= j

\* LazyClose for a pattern that also ends at the end of the text, as the
\* pattern op(.*?)(cl|$) does.
LazyCloseOrEnd(t, q, cl) ==
  Bind({e \in q..Len(t) : StartsAt(t, e, cl) /\ \A k \in q..(e - 1) : t[k] # "\n"},
       LAMBDA ends : IF ends = {} THEN Len(t) + 1 ELSE Least(ends))

\* The lazy group (.*?) followed by the closing delimiter cl, tried from
\* position q: the first position at or after q where cl starts, reached
\* over characters that "." matches (anything but a newline); 0 when the
\* pattern cannot be completed.
LazyClose(t, q, cl) ==
  Bind({e \in q..Len(t) : StartsAt(t, e, cl) /\ \A k \in q..(e - 1) : t[k] # "\n"},
       LAMBDA ends : IF ends = {} THEN 0 ELSE Least(ends))

\* Where the pattern op(.*?)cl matches first at or after position p: the
\* leftmost position where op starts and the rest of the pattern can be
\* completed; 0 when there is no match.
FirstMatch(t, p, op, cl) ==
  Bind({s \in p..Len(t) : StartsAt(t, s, op) /\ LazyClose(t, s + Len(op), cl) # 0},
       LAMBDA starts : IF starts = {} THEN 0 ELSE Least(starts))

\* BoldRepl with the tag of the other pass.
BoldReplEm(X) == <<"<", "e", "m", ">">> \o X \o <<"<", "/", "e", "m", ">">>

\* r'<b>\1</b>'
BoldRepl(X) == <<"<", "b", ">">> \o X \o <<"<", "/", "b", ">">>

\* r'<em>\1</em>'
EmRepl(X) == <<"<", "e", "m", ">">> \o X \o <<"<", "/", "e", "m", ">">>

\* remove_c for the pattern r'c', which leaves "C" in the text.
remove_lower_c(text) == SelectSeq(text, LAMBDA ch : ch # "c")

\* remove_c: re.sub(r'[cC]', '', text).
remove_c(text) == SelectSeq(text, LAMBDA ch : ch \notin {"c", "C"})

\* Replacement with the digest put back between the delimiters of its span,
\* as lambda m: '[[' + md5_hash(m.group(1)) + ']]' does.
ReplacementBracketed(kind, X) ==
  CASE kind = "bold" -> BoldRepl(X)
    [] kind = "em" -> EmRepl(X)
    [] kind = "hash" -> <<"[", "[">> \o md5_hash(X) \o <<"]", "]">>
    [] kind = "strip" -> remove_c(X)

\* The replacement of one match whose group 1 is X.
Replacement(kind, X) ==
  CASE kind = "bold" -> BoldRepl(X)
    [] kind = "em" -> EmRepl(X)
    [] kind = "hash" -> md5_hash(X)
    [] kind = "strip" -> remove_c(X)

\* re.sub of the pattern op(.*?)cl on the text from position p on: the text
\* before the leftmost match is copied, the match is replaced, and the
\* substitution goes on after the match.
RECURSIVE ReSub(_, _, _, _, _)
ReSub(t, p, op, cl, kind) ==
  Bind(FirstMatch(t, p, op, cl), LAMBDA s :
    IF s = 0 THEN SubSeq(t, p, Len(t))
    ELSE Bind(LazyClose(t, s + Len(op), cl), LAMBDA q :
           SubSeq(t, p, s - 1)
             \o Replacement(kind, SubSeq(t, s + Len(op), q - 1))
             \o ReSub(t, q + Len(cl), op, cl, kind)))

\* text = re.sub(r'\*\*(.*?)\*\*', r'<b>\1</b>', text)
BoldPass(text) ==
  Bind(text, LAMBDA t : ReSub(t, 1, <<"*", "*">>, <<"*", "*">>, "bold"))

\* text = re.sub(r'__(.*?)__', r'<em>\1</em>', text)
EmPass(text) ==
  Bind(text, LAMBDA t : ReSub(t, 1, <<"_", "_">>, <<"_", "_">>, "em"))

\* text = re.sub(r'\[\[(.*?)\]\]', lambda m: md5_hash(m.group(1)), text)
HashPass(text) ==
  Bind(text, LAMBDA t : ReSub(t, 1, <<"[", "[">>, <<"]", "]">>, "hash"))

\* text = re.sub(r'\(\((.*?)\)\)', lambda m: remove_c(m.group(1)), text)
StripPass(text) ==
  Bind(text, LAMBDA t : ReSub(t, 1, <<"(", "(">>, <<")", ")">>, "strip"))

parse_inline_markdown(text) == StripPass(HashPass(EmPass(BoldPass(text))))

(***************************************************************************)
(* The block parsers.  None is Python's None, and every result that the    *)
(* scan tests with "if" is falsy exactly when it is None.                  *)
(***************************************************************************)
None == <<>>

NL == <<"\n">>

\* The characters str.strip() removes and \s matches.
IsSpace(ch) == ch \in {" ", "\t", "\n", "\r", "\f"}

\* Strip as str.strip('\n') does it: only newlines go.
StripNewline(s) ==
  Bind(s, LAMBDA t :
    Bind({k \in 1..Len(t) : t[k] # "\n"}, LAMBDA keep :
      IF keep = {} THEN <<>>
      ELSE SubSeq(t, CHOOSE k \in keep : \A j \in keep : k <= j,
                     CHOOSE k \in keep : \A j \in keep : k >= j)))

\* str.strip(): the text from its first to its last character that is not
\* whitespace.
Strip(s) ==
  Bind(s, LAMBDA t :
    Bind({k \in 1..Len(t) : ~IsSpace(t[k])}, LAMBDA keep :
      IF keep = {} THEN <<>>
      ELSE SubSeq(t, CHOOSE k \in keep : \A j \in keep : k <= j,
                     CHOOSE k \in keep : \A j \in keep : k >= j)))

\* '\n'.join(list)
RECURSIVE JoinLines(_)
JoinLines(list) ==
  IF list = <<>> THEN <<>>
  ELSE IF Len(list) = 1 THEN list[1]
  ELSE list[1] \o NL \o JoinLines(Tail(list))

\* str(level) for a heading level.
Digit(level) == Ascii[17 + level]

\* HeadingMatch for the pattern r'^(#{1,6})(.+)$', without the whitespace
\* after the marker.
HeadingMatchNoSpace(line, h) ==
  /\ Len(line) >= h + 1
  /\ \A k \in 1..h : line[k] = "#"
  /\ \A k \in (h + 1)..Len(line) : line[k] # "\n"

\* re.match(r'^(#{1,6})\s(.+)$', line) with h characters in group 1: h "#"
\* characters, then one whitespace character, then group 2: one or more
\* characters that "." matches, up to the end of the line.
HeadingMatch(line, h) ==
  /\ Len(line) >= h + 2
  /\ \A k \in 1..h : line[k] = "#"
  /\ IsSpace(line[h + 1])
  /\ \A k \in (h + 2)..Len(line) : line[k] # "\n"

\* f"<h{level}>{content}</h{level}>\n"
HeadingHtml(level, content) ==
  <<"<", "h", Digit(level), ">">> \o content \o <<"<", "/", "h", Digit(level), ">">> \o NL

parse_headings(line) ==
  Bind(line, LAMBDA l :
    IF \E h \in 1..6 : HeadingMatch(l, h)
    THEN Bind(CHOOSE h \in 1..6 : HeadingMatch(l, h), LAMBDA level :
           HeadingHtml(level, parse_inline_markdown(SubSeq(l, level + 2, Len(l)))))
    ELSE None)

\* f"<li>{item}</li>"
ListItemHtml(item) == <<"<", "l", "i", ">">> \o item \o <<"<", "/", "l", "i", ">">>

\* ListItems with "continue" in the place of "break": a line without the
\* prefix is passed over and the loop goes on.
RECURSIVE ListItemsNoBreak(_, _, _)
ListItemsNoBreak(lines, k, prefix) ==
  IF k > Len(lines) THEN <<>>
  ELSE IF StartsAt(lines[k], 1, prefix)
       THEN <<<<"<", "l", "i", ">">>
                \o parse_inline_markdown(Strip(SubSeq(lines[k], 3, Len(lines[k]))))
                \o <<"<", "/", "l", "i", ">">>>>
              \o ListItemsNoBreak(lines, k + 1, prefix)
       ELSE ListItemsNoBreak(lines, k + 1, prefix)

\* The for loop of the list parsers: the items of the lines from k on, up to
\* the first line without the prefix.
RECURSIVE ListItems(_, _, _)
ListItems(lines, k, prefix) ==
  IF k > Len(lines) THEN <<>>
  ELSE IF StartsAt(lines[k], 1, prefix)
       THEN <<ListItemHtml(parse_inline_markdown(Strip(SubSeq(lines[k], 3, Len(lines[k])))))>>
              \o ListItems(lines, k + 1, prefix)
       ELSE <<>>

\* '\n'.join(html_list) + '\n', len(html_list) - 2
Joined(html_list) == <<JoinLines(html_list) \o NL, Len(html_list) - 2>>

parse_unordered_list(lines) ==
  Bind(lines, LAMBDA ls :
    IF ls = <<>> \/ ~StartsAt(ls[1], 1, <<"-", " ">>) THEN None
    ELSE Bind(<<<<"<", "u", "l", ">">>>> \o ListItems(ls, 1, <<"-", " ">>)
                \o <<<<"<", "/", "u", "l", ">">>>>,
              LAMBDA html_list : Joined(html_list)))

parse_ordered_list(lines) ==
  Bind(lines, LAMBDA ls :
    IF ls = <<>> \/ ~StartsAt(ls[1], 1, <<"*", " ">>) THEN None
    ELSE Bind(<<<<"<", "o", "l", ">">>>> \o ListItems(ls, 1, <<"*", " ">>)
                \o <<<<"<", "/", "o", "l", ">">>>>,
              LAMBDA html_list : Joined(html_list)))

\* The for loop of parse_paragraph: what it appends to html_para for the
\* lines from k on, up to the first blank line.
RECURSIVE ParaItems(_, _)
ParaItems(lines, k) ==
  IF k > Len(lines) THEN <<>>
  ELSE Bind(Strip(lines[k]), LAMBDA stripped :
         IF stripped = <<>> THEN <<>>
         ELSE (IF k > 1 THEN <<<<"<", "b", "r", "/", ">">>>> ELSE <<>>)
                \o <<parse_inline_markdown(stripped)>>
                \o ParaItems(lines, k + 1))

\* parse_paragraph with the loop left after its first line: a paragraph per line.
parse_paragraph_one_line(lines) ==
  Bind(lines, LAMBDA ls :
    IF ls = <<>> \/ Strip(ls[1]) = <<>> THEN None
    ELSE <<<<"<", "p", ">", "\n">> \o parse_inline_markdown(Strip(ls[1]))
             \o <<"\n", "<", "/", "p", ">", "\n">>, 1>>)

parse_paragraph(lines) ==
  Bind(lines, LAMBDA ls :
    IF ls = <<>> \/ Strip(ls[1]) = <<>> THEN None
    ELSE Bind(<<<<"<", "p", ">">>>> \o ParaItems(ls, 1) \o <<<<"<", "/", "p", ">">>>>,
              LAMBDA html_para : Joined(html_para)))

(***************************************************************************)
(* The state: the command line and the file system that main() finds, the  *)
(* variables of convert_markdown_to_html, and, for the inline transformer  *)
(* run on its own, the text between its passes.                            *)
(***************************************************************************)
VARIABLES
  argv,        \* sys.argv
  fs_input,    \* what the input path names: "missing", "file" or "directory"
  doc,         \* the lines of the input file
  out_opened,  \* the output file has been opened for writing (created, truncated)
  html_file,   \* the strings written to the output file, in order
  stderr,      \* the messages written to stderr, in order
  lines,       \* md_file.readlines()
  i,           \* the cursor of the scan
  blocks,      \* history: per iteration of the scan, the rule applied, the cursor and its advance
  pc,          \* "main", "scan", "exited"; "inline" when the inline transformer runs alone
  exit_code,   \* the exit status, -1 until the process has exited
  text,        \* the variable text of parse_inline_markdown
  pass,        \* the number of substitution passes done on text
  hist         \* history: the text before the first pass and after each pass

vars ==
  <<argv, fs_input, doc, out_opened, html_file, stderr, lines, i, blocks, pc,
    exit_code, text, pass, hist>>

scanVars == <<argv, fs_input, doc, out_opened, html_file, stderr, lines, i, blocks, exit_code>>

inlineVars == <<text, pass, hist>>

(***************************************************************************)
(* Bounds and inputs.                                                      *)
(***************************************************************************)
\* The longest document of the block scan, in lines.
MaxLines == 5

\* The most "#" characters at the start of a generated line.
MaxHashes == 7

\* The longest inline text, in tokens, and in whole spans.
MaxTokens == 3

MaxSpans == 2

\* The longest command line, len(sys.argv).
MaxArgc == 3

RECURSIVE Flatten(_)
Flatten(ss) == IF ss = <<>> THEN <<>> ELSE Head(ss) \o Flatten(Tail(ss))

\* All sequences of at most n elements of S.
SeqsUpTo(S, n) == UNION {[1..k -> S] : k \in 0..n}

\* The lines of the documents of the block scan: an empty line, a
\* whitespace-only line, a heading, an item of either list, paragraph text.
LineSet ==
  { <<"\n">>,
    <<" ", "\n">>,
    <<"#", " ", "T", "\n">>,
    <<"-", " ", "a", "\n">>,
    <<"*", " ", "b", "\n">>,
    <<" ", "x", " ", "\n">> }

Documents == SeqsUpTo(LineSet, MaxLines)

\* Single lines put together from an indentation, a marker, a separator, a
\* content and an end; the last line of a file may lack its newline.
Markers ==
  {[k \in 1..h |-> "#"] : h \in 0..MaxHashes} \cup {<<"-">>, <<"*">>}

GenLines ==
  { lead \o marker \o sep \o content \o trail :
      lead \in {<<>>, <<" ">>},
      marker \in Markers,
      sep \in {<<>>, <<" ">>, <<"\t">>, <<" ", " ">>},
      content \in {<<>>, <<"T">>, <<"_", "_", "T", "_", "_">>},
      trail \in {<<"\n">>, <<" ", "\n">>, <<>>} } \ {<<>>}

LineDocuments ==
  {<<l>> : l \in GenLines} \cup {<<l, <<"-", " ", "a", "\n">>>> : l \in GenLines}

\* Inline texts: every sequence of at most MaxTokens delimiters and letters,
\* and every sequence of at most MaxSpans whole spans and letters.
Tokens ==
  { <<"*", "*">>, <<"_", "_">>, <<"[", "[">>, <<"]", "]">>, <<"(", "(">>,
    <<")", ")">>, <<"a">>, <<"c">> }

Spans ==
  { <<"x">>,
    <<"*", "*", "a", "*", "*">>,
    <<"_", "_", "a", "_", "_", "*", "*", "b", "*", "*">>,
    <<"[", "[", "a", "]", "]">>,
    <<"(", "(", "C", "a", "c", ")", ")">>,
    <<"[", "[", "*", "*", "a", "*", "*", "]", "]">>,
    <<"(", "(", "[", "[", "b", "]", "]", ")", ")">>,
    <<"*", "*", "(", "(", "c", "_", "_", ")", ")">>,
    <<"(", "(", "[", "c", "[", "a", "]", "]", ")", ")">>,
    <<"C", "c">> }

InlineTexts ==
  {Flatten(ts) : ts \in SeqsUpTo(Tokens, MaxTokens)}
    \cup {Flatten(ts) : ts \in SeqsUpTo(Spans, MaxSpans)}

\* The command lines: the program name and up to MaxArgc - 1 arguments.
CommandLines ==
  {SubSeq(<<"./markdown2html.py", "README.md", "README.html", "extra">>, 1, n) : n \in 1..MaxArgc}

(***************************************************************************)
(* Initial states.                                                         *)
(***************************************************************************)
\* main() is about to run on a command line and a file system; the input
\* file, when there is one, holds the lines of a document of Docs, of at
\* most one line when the command line has arguments that main() never reads.
InitMain(Docs) ==
  /\ argv \in CommandLines
  /\ fs_input \in {"missing", "file", "directory"}
  /\ doc \in IF Len(argv) < 3 \/ fs_input # "file" THEN {<<>>}
             ELSE IF Len(argv) = 3 THEN Docs
             ELSE {d \in Docs : Len(d) <= 1}
  /\ out_opened = FALSE
  /\ html_file = <<>>
  /\ stderr = <<>>
  /\ lines = <<>>
  /\ i = 0
  /\ blocks = <<>>
  /\ pc = "main"
  /\ exit_code = -1
  /\ text = <<>>
  /\ pass = 0
  /\ hist = <<>>

Init == InitMain(Documents)

InitLine == InitMain(LineDocuments)

\* parse_inline_markdown is about to run on a text.
InitInline ==
  /\ argv = <<>>
  /\ fs_input = "missing"
  /\ doc = <<>>
  /\ out_opened = FALSE
  /\ html_file = <<>>
  /\ stderr = <<>>
  /\ lines = <<>>
  /\ i = 0
  /\ blocks = <<>>
  /\ pc = "inline"
  /\ exit_code = -1
  /\ text \in InlineTexts
  /\ pass = 0
  /\ hist = <<text>>

(***************************************************************************)
(* main()                                                                  *)
(***************************************************************************)
\* len(sys.argv) < 3: the usage message and exit status 1.
MainUsage ==
  /\ pc = "main"
  /\ Len(argv) < 3
  /\ stderr' = Append(stderr, "Usage: ./markdown2html.py README.md README.html\n")
  /\ exit_code' = 1
  /\ pc' = "exited"
  /\ UNCHANGED <<argv, fs_input, doc, out_opened, html_file, lines, i, blocks>>
  /\ UNCHANGED inlineVars

\* MainMissing with the output file opened for writing before the check of
\* the input path.
MainMissingAfterOpen ==
  /\ pc = "main"
  /\ Len(argv) >= 3
  /\ fs_input = "missing"
  /\ out_opened' = TRUE
  /\ stderr' = Append(stderr, "Missing " \o argv[2] \o "\n")
  /\ exit_code' = 1
  /\ pc' = "exited"
  /\ UNCHANGED <<argv, fs_input, doc, html_file, lines, i, blocks>>
  /\ UNCHANGED <<text, pass, hist>>

\* MainMissing without its sys.exit(1): the message, and the status of a
\* normal end.
MainMissingStatus0 ==
  /\ pc = "main"
  /\ Len(argv) >= 3
  /\ fs_input = "missing"
  /\ stderr' = Append(stderr, "Missing " \o argv[2] \o "\n")
  /\ exit_code' = 0
  /\ pc' = "exited"
  /\ UNCHANGED <<argv, fs_input, doc, out_opened, html_file, lines, i, blocks>>
  /\ UNCHANGED <<text, pass, hist>>

\* The input path does not exist: the message and exit status 1.
MainMissing ==
  /\ pc = "main"
  /\ Len(argv) >= 3
  /\ fs_input = "missing"
  /\ stderr' = Append(stderr, "Missing " \o argv[2] \o "\n")
  /\ exit_code' = 1
  /\ pc' = "exited"
  /\ UNCHANGED <<argv, fs_input, doc, out_opened, html_file, lines, i, blocks>>
  /\ UNCHANGED inlineVars

\* The input path exists but open(input_file, 'r') raises (here: it is a
\* directory).  Nothing catches the exception: the interpreter prints the
\* traceback and exits with status 1, before the output file is opened.
MainOpenError ==
  /\ pc = "main"
  /\ Len(argv) >= 3
  /\ fs_input = "directory"
  /\ stderr' = Append(stderr, "Traceback (most recent call last): IsADirectoryError")
  /\ exit_code' = 1
  /\ pc' = "exited"
  /\ UNCHANGED <<argv, fs_input, doc, out_opened, html_file, lines, i, blocks>>
  /\ UNCHANGED inlineVars

\* convert_markdown_to_html up to the loop: both files are opened, the lines
\* are read, the cursor is 0.
ConvertOpen ==
  /\ pc = "main"
  /\ Len(argv) >= 3
  /\ fs_input = "file"
  /\ out_opened' = TRUE
  /\ html_file' = <<>>
  /\ lines' = doc
  /\ i' = 0
  /\ pc' = "scan"
  /\ UNCHANGED <<argv, fs_input, doc, stderr, blocks, exit_code>>
  /\ UNCHANGED inlineVars

(***************************************************************************)
(* The loop of convert_markdown_to_html, one action per way through its    *)
(* body.                                                                   *)
(***************************************************************************)
\* lines[i:]
Rest == SubSeq(lines, i + 1, Len(lines))

\* line = lines[i].strip()
CurLine == Strip(lines[i + 1])

Truthy(v) == v # None

InLoop == pc = "scan" /\ i < Len(lines)

Record(rule, adv) == Append(blocks, [rule |-> rule, at |-> i, adv |-> adv])

\* heading = parse_headings(line); if heading: write, i += 1, continue
ScanHeading ==
  /\ InLoop
  /\ \E heading \in {parse_headings(CurLine)} :
       /\ Truthy(heading)
       /\ html_file' = Append(html_file, heading)
  /\ i' = i + 1
  /\ blocks' = Record("heading", 1)
  /\ UNCHANGED <<argv, fs_input, doc, out_opened, stderr, lines, pc, exit_code>>
  /\ UNCHANGED inlineVars

\* ul_result = parse_unordered_list(lines[i:]); if ul_result: write,
\* i += items_count, continue
ScanUnorderedList ==
  /\ InLoop
  /\ ~Truthy(parse_headings(CurLine))
  /\ \E ul_result \in {parse_unordered_list(Rest)} :
       /\ Truthy(ul_result)
       /\ html_file' = Append(html_file, ul_result[1])
       /\ i' = i + ul_result[2]
       /\ blocks' = Record("ul", ul_result[2])
  /\ UNCHANGED <<argv, fs_input, doc, out_opened, stderr, lines, pc, exit_code>>
  /\ UNCHANGED inlineVars

\* ol_result = parse_ordered_list(lines[i:]); if ol_result: write,
\* i += items_count, continue
ScanOrderedList ==
  /\ InLoop
  /\ ~Truthy(parse_headings(CurLine))
  /\ ~Truthy(parse_unordered_list(Rest))
  /\ \E ol_result \in {parse_ordered_list(Rest)} :
       /\ Truthy(ol_result)
       /\ html_file' = Append(html_file, ol_result[1])
       /\ i' = i + ol_result[2]
       /\ blocks' = Record("ol", ol_result[2])
  /\ UNCHANGED <<argv, fs_input, doc, out_opened, stderr, lines, pc, exit_code>>
  /\ UNCHANGED inlineVars

\* ScanParagraph as the first check of the loop body: the paragraph parser
\* is tried whatever the heading and list parsers would return.
ScanParagraphFirst ==
  /\ pc = "scan" /\ i < Len(lines)
  /\ \E para_result \in {parse_paragraph(SubSeq(lines, i + 1, Len(lines)))} :
       /\ para_result # None
       /\ html_file' = Append(html_file, para_result[1])
       /\ i' = i + para_result[2]
       /\ blocks' = Append(blocks, [rule |-> "p", at |-> i, adv |-> para_result[2]])
  /\ UNCHANGED <<argv, fs_input, doc, out_opened, stderr, lines, pc, exit_code>>
  /\ UNCHANGED <<text, pass, hist>>

\* para_result = parse_paragraph(lines[i:]); if para_result: write,
\* i += lines_count, continue
ScanParagraph ==
  /\ InLoop
  /\ ~Truthy(parse_headings(CurLine))
  /\ ~Truthy(parse_unordered_list(Rest))
  /\ ~Truthy(parse_ordered_list(Rest))
  /\ \E para_result \in {parse_paragraph(Rest)} :
       /\ Truthy(para_result)
       /\ html_file' = Append(html_file, para_result[1])
       /\ i' = i + para_result[2]
       /\ blocks' = Record("p", para_result[2])
  /\ UNCHANGED <<argv, fs_input, doc, out_opened, stderr, lines, pc, exit_code>>
  /\ UNCHANGED inlineVars

\* ScanSkip without its i += 1: the cursor stays on the line no parser took.
ScanSkipStay ==
  /\ pc = "scan" /\ i < Len(lines)
  /\ parse_headings(Strip(lines[i + 1])) = None
  /\ parse_unordered_list(SubSeq(lines, i + 1, Len(lines))) = None
  /\ parse_ordered_list(SubSeq(lines, i + 1, Len(lines))) = None
  /\ parse_paragraph(SubSeq(lines, i + 1, Len(lines))) = None
  /\ i' = i
  /\ blocks' = Append(blocks, [rule |-> "skip", at |-> i, adv |-> 0])
  /\ UNCHANGED <<argv, fs_input, doc, out_opened, html_file, stderr, lines, pc, exit_code>>
  /\ UNCHANGED <<text, pass, hist>>

\* No parser took the line: i += 1.
ScanSkip ==
  /\ InLoop
  /\ ~Truthy(parse_headings(CurLine))
  /\ ~Truthy(parse_unordered_list(Rest))
  /\ ~Truthy(parse_ordered_list(Rest))
  /\ ~Truthy(parse_paragraph(Rest))
  /\ i' = i + 1
  /\ blocks' = Record("skip", 1)
  /\ UNCHANGED <<argv, fs_input, doc, out_opened, html_file, stderr, lines, pc, exit_code>>
  /\ UNCHANGED inlineVars

\* The loop ends, the files are closed, main() calls sys.exit(0).
ConvertDone ==
  /\ pc = "scan"
  /\ ~(i < Len(lines))
  /\ exit_code' = 0
  /\ pc' = "exited"
  /\ UNCHANGED <<argv, fs_input, doc, out_opened, html_file, stderr, lines, i, blocks>>
  /\ UNCHANGED inlineVars

Next ==
  \/ MainUsage
  \/ MainMissing
  \/ MainOpenError
  \/ ConvertOpen
  \/ ScanHeading
  \/ ScanUnorderedList
  \/ ScanOrderedList
  \/ ScanParagraph
  \/ ScanSkip
  \/ ConvertDone

Spec == Init /\ [][Next]_vars

SpecLine == InitLine /\ [][Next]_vars

\* The process runs on: a step that main() or the loop can take is taken.
\* The input files are the documents without the line of one space, which
\* the scan takes as it takes the empty line.
InitFair == InitMain(SeqsUpTo(LineSet \ {<<" ", "\n">>}, MaxLines))

SpecFair == InitFair /\ [][Next]_vars /\ WF_vars(Next)

(***************************************************************************)
(* parse_inline_markdown, one action per assignment to text.               *)
(***************************************************************************)
InlinePass(n, result) ==
  /\ pc = "inline"
  /\ pass = n
  /\ text' = result
  /\ pass' = n + 1
  /\ hist' = Append(hist, result)
  /\ UNCHANGED scanVars
  /\ UNCHANGED pc

InlineBold == InlinePass(0, BoldPass(text))

InlineEm == InlinePass(1, EmPass(text))

\* InlineHash on the text parse_inline_markdown was called with, not on
\* what the passes before it made of that text.
InlineHashOnInput == InlinePass(2, HashPass(hist[1]))

InlineHash == InlinePass(2, HashPass(text))

InlineStrip == InlinePass(3, StripPass(text))

NextInline ==
  \/ InlineBold
  \/ InlineEm
  \/ InlineHash
  \/ InlineStrip

SpecInline == InitInline /\ [][NextInline]_vars

(***************************************************************************)
(* parse_inline_markdown called on a text and then on what it returned,    *)
(* one action per call.                                                    *)
(***************************************************************************)
InitRerun ==
  /\ argv = <<>>
  /\ fs_input = "missing"
  /\ doc = <<>>
  /\ out_opened = FALSE
  /\ html_file = <<>>
  /\ stderr = <<>>
  /\ lines = <<>>
  /\ i = 0
  /\ blocks = <<>>
  /\ pc = "rerun"
  /\ exit_code = -1
  /\ text \in InlineTexts
  /\ pass = 0
  /\ hist = <<text>>

\* text = parse_inline_markdown(text), at most twice.
InlineCall ==
  /\ pc = "rerun"
  /\ pass < 2
  /\ \E result \in {parse_inline_markdown(text)} :
       /\ text' = result
       /\ hist' = Append(hist, result)
  /\ pass' = pass + 1
  /\ UNCHANGED scanVars
  /\ UNCHANGED pc

NextRerun == InlineCall

SpecRerun == InitRerun /\ [][NextRerun]_vars

(***************************************************************************)
(* Properties of the block scan.                                           *)
(***************************************************************************)
\* A line of whitespace only.
IsBlankLine(l) == \A k \in 1..Len(l) : IsSpace(l[k])

\* The line at the 0-based position j.
LineAt(j) == lines[j + 1]

\* The last iteration of the scan so far.
LastBlock == blocks[Len(blocks)]

\* The number of consecutive non-blank lines from position at on.
NonBlankRun(at) ==
  Least({n \in 0..(Len(lines) - at) :
           at + n = Len(lines) \/ IsBlankLine(LineAt(at + n))})

\* The number of consecutive lines from position at on that start with the prefix.
PrefixRun(at, prefix) ==
  Least({n \in 0..(Len(lines) - at) :
           at + n = Len(lines) \/ ~StartsAt(LineAt(at + n), 1, prefix)})

\* The number of lines whose text the block's fragment holds.
BlockExtent(b) ==
  CASE b.rule = "p" -> NonBlankRun(b.at)
    [] b.rule = "ul" -> PrefixRun(b.at, <<"-", " ">>)
    [] b.rule = "ol" -> PrefixRun(b.at, <<"*", " ">>)
    [] OTHER -> 1

\* The blocks that hold the line at position j.
BlocksOf(j) ==
  {b \in DOMAIN blocks : blocks[b].at <= j /\ j < blocks[b].at + BlockExtent(blocks[b])}

\* The trimmed text of a line is a heading: 1 to 6 "#", one whitespace
\* character, then at least one more character.
HashCount(l) == Least({n \in 0..Len(l) : n = Len(l) \/ l[n + 1] # "#"})

HeadingShape(l, marks) ==
  /\ HashCount(l) \in 1..6
  /\ Len(l) >= HashCount(l) + 2
  /\ l[HashCount(l) + 1] \in marks

IsHeadingLine(l) == HeadingShape(Strip(l), {" ", "\t", "\r", "\f"})

IsListStart(l) == StartsAt(l, 1, <<"-", " ">>) \/ StartsAt(l, 1, <<"*", " ">>)

\* The fragments written so far are those of the blocks that are not skips.
Emitted == Cardinality({b \in DOMAIN blocks : blocks[b].rule # "skip"})

\* C1: when the scan has ended, every non-blank line of the input lies in
\* exactly one block, so that its text is in exactly one emitted fragment.
C1_EachLineInOneBlock ==
  (pc = "exited" /\ exit_code = 0) =>
    \A j \in 0..(Len(lines) - 1) :
      ~IsBlankLine(LineAt(j)) => Cardinality(BlocksOf(j)) = 1

\* The paragraph fragment of the n lines from position at on: "<p>", the
\* trimmed and inline-transformed lines with "<br/>" between them, "</p>",
\* each ended by a newline.
ParagraphOf(at, n) ==
  <<"<", "p", ">", "\n">>
    \o Flatten([k \in 1..n |->
         (IF k > 1 THEN <<"<", "b", "r", "/", ">", "\n">> ELSE <<>>)
           \o parse_inline_markdown(Strip(LineAt(at + k - 1))) \o <<"\n">>])
    \o <<"<", "/", "p", ">", "\n">>

\* C2: an iteration at a non-blank line that is neither a heading nor a list
\* start is a paragraph, and a paragraph writes one fragment: that of the
\* whole run of non-blank lines from the cursor to the first blank line or
\* the end of the input.
C2_Paragraph ==
  (pc = "scan" /\ blocks # <<>>) =>
    /\ LastBlock.rule = "p" <=>
         /\ ~IsBlankLine(LineAt(LastBlock.at))
         /\ ~IsHeadingLine(LineAt(LastBlock.at))
         /\ ~IsListStart(LineAt(LastBlock.at))
    /\ LastBlock.rule = "p" =>
         /\ Len(html_file) = Emitted
         /\ html_file[Len(html_file)] = ParagraphOf(LastBlock.at, NonBlankRun(LastBlock.at))

\* C2 happens: a paragraph of two lines whose second line has the shape of a heading.
C2_Witness ==
  /\ pc = "scan"
  /\ blocks # <<>>
  /\ LastBlock.rule = "p"
  /\ NonBlankRun(LastBlock.at) >= 2
  /\ IsHeadingLine(LineAt(LastBlock.at + 1))

\* The list fragment of the n items from position at on.
ListOf(tag, at, n) ==
  <<"<", tag, "l", ">", "\n">>
    \o Flatten([k \in 1..n |->
         <<"<", "l", "i", ">">>
           \o parse_inline_markdown(Strip(SubSeq(LineAt(at + k - 1), 3, Len(LineAt(at + k - 1)))))
           \o <<"<", "/", "l", "i", ">", "\n">>])
    \o <<"<", "/", tag, "l", ">", "\n">>

\* C3: an iteration at a line that starts with "- " (with "* ") and is not a
\* heading is an unordered (ordered) list; it writes one fragment with one
\* item per line of the whole run of lines with that prefix, in order, and
\* moves the cursor to the line that ended the run.
C3_Lists ==
  (pc = "scan" /\ blocks # <<>>) =>
    /\ LastBlock.rule = "ul" <=>
         (StartsAt(LineAt(LastBlock.at), 1, <<"-", " ">>) /\ ~IsHeadingLine(LineAt(LastBlock.at)))
    /\ LastBlock.rule = "ol" <=>
         (StartsAt(LineAt(LastBlock.at), 1, <<"*", " ">>) /\ ~IsHeadingLine(LineAt(LastBlock.at)))
    /\ LastBlock.rule \in {"ul", "ol"} =>
         /\ Len(html_file) = Emitted
         /\ html_file[Len(html_file)] =
              ListOf(IF LastBlock.rule = "ul" THEN "u" ELSE "o", LastBlock.at,
                     BlockExtent(LastBlock))
         /\ LastBlock.adv = BlockExtent(LastBlock)
         /\ i = LastBlock.at + BlockExtent(LastBlock)

\* C3 happens: a list of two items or more that a following line ended.
C3_Witness ==
  /\ pc = "scan"
  /\ blocks # <<>>
  /\ LastBlock.rule \in {"ul", "ol"}
  /\ LastBlock.adv >= 2
  /\ i < Len(lines)

\* C5: a blank line at the cursor is skipped, the cursor moving by one, and
\* the skip writes nothing; an input of blank lines only writes nothing.
C5_BlankLines ==
  /\ pc \in {"scan", "exited"} => Len(html_file) = Emitted
  /\ (pc = "scan" /\ blocks # <<>>) =>
       /\ IsBlankLine(LineAt(LastBlock.at)) <=> LastBlock.rule = "skip"
       /\ LastBlock.rule = "skip" => i = LastBlock.at + 1
  /\ (\A k \in 1..Len(lines) : IsBlankLine(lines[k])) => html_file = <<>>

\* C5 happens: the scan of three blank lines or more has ended.
C5_Witness ==
  /\ pc = "exited"
  /\ exit_code = 0
  /\ Len(lines) >= 3
  /\ Len(blocks) = Len(lines)
  /\ \A k \in 1..Len(lines) : IsBlankLine(lines[k])
  /\ \E k \in 1..Len(lines) : Len(lines[k]) > 1

\* The heading fragment of a trimmed line: "<hL>", the inline-transformed
\* text after the marker and the character that follows it, "</hL>", a newline.
HeadingOf(l) ==
  <<"<", "h", <<"1", "2", "3", "4", "5", "6">>[HashCount(l)], ">">>
    \o parse_inline_markdown(SubSeq(l, HashCount(l) + 2, Len(l)))
    \o <<"<", "/", "h", <<"1", "2", "3", "4", "5", "6">>[HashCount(l)], ">", "\n">>

\* C4 as claimed: an iteration is a heading if and only if the trimmed line
\* is 1 to 6 "#", a space, and at least one more character.
C4_HeadingAfterSpaceOnly ==
  (pc = "scan" /\ blocks # <<>>) =>
    (LastBlock.rule = "heading" <=> HeadingShape(Strip(LineAt(LastBlock.at)), {" "}))

\* C4: an iteration is a heading if and only if the trimmed line is 1 to 6
\* "#", one whitespace character (a space or a tab, for instance), and at
\* least one more character; the fragment is <hL>inline(content)</hL> and a
\* newline with L the number of leading "#", and the cursor moves by one.  A
\* line with 7 or more leading "#", or with nothing after the marker, is not
\* a heading.
C4_Heading ==
  (pc = "scan" /\ blocks # <<>>) =>
    /\ LastBlock.rule = "heading" <=> IsHeadingLine(LineAt(LastBlock.at))
    /\ LastBlock.rule = "heading" =>
         /\ Len(html_file) = Emitted
         /\ html_file[Len(html_file)] = HeadingOf(Strip(LineAt(LastBlock.at)))
         /\ i = LastBlock.at + 1
    /\ ( \/ HashCount(Strip(LineAt(LastBlock.at))) >= 7
         \/ HashCount(Strip(LineAt(LastBlock.at))) = Len(Strip(LineAt(LastBlock.at))) )
         => LastBlock.rule # "heading"

\* C4 happens: a heading of level 6 with a tab after the marker has been
\* written and the next line is at the cursor.
C4_Witness ==
  /\ pc = "scan"
  /\ blocks # <<>>
  /\ LastBlock.rule = "heading"
  /\ HashCount(Strip(LineAt(LastBlock.at))) = 6
  /\ Strip(LineAt(LastBlock.at))[7] = "\t"
  /\ i = 1
  /\ Len(lines) = 2

\* C12: a paragraph block recognized at the cursor i over a run of n
\* non-blank lines moves the cursor to i + n: the count parse_paragraph
\* returns is the number of lines of the paragraph.
C12_ParagraphAdvance ==
  \A b \in DOMAIN blocks :
    blocks[b].rule = "p" => blocks[b].adv = NonBlankRun(blocks[b].at)

\* The rule of the scan for a line: the first, in the order heading,
\* unordered list, ordered list, paragraph, whose predicate holds for the
\* line, and the fallback "skip" when none holds.
FirstRule(l) ==
  IF IsHeadingLine(l) THEN "heading"
  ELSE IF StartsAt(l, 1, <<"-", " ">>) THEN "ul"
  ELSE IF StartsAt(l, 1, <<"*", " ">>) THEN "ol"
  ELSE IF ~IsBlankLine(l) THEN "p"
  ELSE "skip"

\* The opening of the fragment each rule writes.
OpeningOf(rule) ==
  CASE rule = "heading" -> <<"<", "h">>
    [] rule = "ul" -> <<"<", "u", "l", ">", "\n">>
    [] rule = "ol" -> <<"<", "o", "l", ">", "\n">>
    [] rule = "p" -> <<"<", "p", ">", "\n">>

\* The number of fragments written up to and including the iteration b.
FragmentsUpTo(b) == Cardinality({c \in 1..b : blocks[c].rule # "skip"})

\* C13: every iteration of the scan applies exactly one rule, the first in
\* the order heading, unordered list, ordered list, paragraph, fallback whose
\* predicate holds for the line at the cursor: the iteration writes the
\* fragment of that rule and no other, and moves the cursor once.
C13_FirstRuleWins ==
  /\ Len(html_file) = Emitted
  /\ \A b \in DOMAIN blocks :
       /\ blocks[b].rule = FirstRule(LineAt(blocks[b].at))
       /\ blocks[b].rule # "skip" =>
            StartsAt(html_file[FragmentsUpTo(b)], 1, OpeningOf(blocks[b].rule))
       /\ blocks[b].at = IF b = 1 THEN 0 ELSE blocks[b - 1].at + blocks[b - 1].adv
  /\ blocks # <<>> => i = LastBlock.at + LastBlock.adv

\* C13 happens: the scan has applied each of the five rules, the three
\* first of them to lines that the paragraph rule would take as well.
C13_Witness ==
  /\ pc = "scan"
  /\ {blocks[b].rule : b \in DOMAIN blocks} = {"heading", "ul", "ol", "p", "skip"}
  /\ \E b \in DOMAIN blocks :
       blocks[b].rule = "ul" /\ parse_paragraph(SubSeq(lines, blocks[b].at + 1, Len(lines))) # None

\* C16: the scan ends: every iteration, whichever rule it applies, moves
\* the cursor forward by at least 1, so there are at most len(lines)
\* iterations, and a scan that has started reaches the exit of main().
C16_Terminates ==
  /\ [](\A b \in DOMAIN blocks : blocks[b].adv >= 1)
  /\ [][i' # i => i' >= i + 1]_vars
  /\ [](Len(blocks) <= Len(lines))
  /\ (pc = "scan") ~> (pc = "exited" /\ exit_code = 0)

\* C16 happens: a scan of MaxLines lines has ended after MaxLines
\* iterations, on blank lines, headings and lists of one item.
C16_Witness ==
  /\ pc = "exited"
  /\ Len(lines) = MaxLines
  /\ Len(blocks) = MaxLines
  /\ \E b \in DOMAIN blocks : blocks[b].rule = "skip"
  /\ \E b \in DOMAIN blocks : blocks[b].rule = "heading"

\* C17: in every state of the scan the cursor is between 0 and len(lines),
\* and when the loop has ended it is len(lines): the cursor never goes past
\* the end of the input.
C17_CursorInRange ==
  pc \in {"scan", "exited"} =>
    /\ 0 <= i /\ i <= Len(lines)
    /\ (pc = "exited" /\ exit_code = 0) => i = Len(lines)

(***************************************************************************)
(* Properties of the inline transformer.                                   *)
(***************************************************************************)
\* The first occurrence of op X cl in a text, as the pair of the positions
\* of its delimiters: cl is the nearest closing delimiter after op, and no
\* opening delimiter further left has a closing delimiter after it.
Occurrences(t, op, cl) ==
  {pq \in {p \in 1..Len(t) : StartsAt(t, p, op)} \X {q \in 1..Len(t) : StartsAt(t, q, cl)} :
     pq[2] >= pq[1] + Len(op)}

FirstOccurrence(t, op, cl) ==
  Bind(Occurrences(t, op, cl), LAMBDA occ :
    {pq \in occ : \A o \in occ : pq[1] <= o[1] /\ (o[1] = pq[1] => pq[2] <= o[2])})

\* after is before with its first occurrence of op X cl replaced by Repl(X)
\* and the text behind that occurrence by Pass of it; without an occurrence
\* after is before.
Substituted(before, after, op, cl, Repl(_), Pass(_)) ==
  /\ Occurrences(before, op, cl) = {} => after = before
  /\ \A pq \in FirstOccurrence(before, op, cl) :
       after = SubSeq(before, 1, pq[1] - 1)
                 \o Repl(SubSeq(before, pq[1] + Len(op), pq[2] - 1))
                 \o Pass(SubSeq(before, pq[2] + Len(cl), Len(before)))

Stars == <<"*", "*">>

Unders == <<"_", "_">>

RECURSIVE WithoutC(_)
WithoutC(X) ==
  IF X = <<>> THEN <<>>
  ELSE IF X[Len(X)] = "c" \/ X[Len(X)] = "C" THEN WithoutC(SubSeq(X, 1, Len(X) - 1))
  ELSE Append(WithoutC(SubSeq(X, 1, Len(X) - 1)), X[Len(X)])

\* C7: the last pass replaces every ((X)), delimiters included, by X without
\* its "c" and "C", and leaves the text outside these spans as it is.
C7_Strip ==
  (pc = "inline" /\ pass = 4) =>
    Substituted(hist[4], hist[5], <<"(", "(">>, <<")", ")">>, WithoutC, StripPass)

\* C7 happens: a span with "c", "C" and another letter has been stripped in
\* a text that has a "c" outside the span, which is still there.
C7_Witness ==
  /\ pc = "inline"
  /\ pass = 4
  /\ hist[4] = <<"C", "c", "(", "(", "C", "a", "c", ")", ")">>
  /\ text = <<"C", "c", "a">>

LowerHex == {"0", "1", "2", "3", "4", "5", "6", "7", "8", "9", "a", "b", "c", "d", "e", "f"}

\* The MD5 test suite of RFC 1321, as far as the texts of the model go.
KnownDigest(X) ==
  CASE X = <<>> ->
         << "d", "4", "1", "d", "8", "c", "d", "9", "8", "f", "0", "0", "b", "2", "0", "4",
            "e", "9", "8", "0", "0", "9", "9", "8", "e", "c", "f", "8", "4", "2", "7", "e" >>
    [] X = <<"a">> ->
         << "0", "c", "c", "1", "7", "5", "b", "9", "c", "0", "f", "1", "b", "6", "a", "8",
            "3", "1", "c", "3", "9", "9", "e", "2", "6", "9", "7", "7", "2", "6", "6", "1" >>
    [] OTHER -> <<>>

\* The text D occurs in the text t.
OccursIn(D, t) == \E k \in 0..(Len(t) - Len(D)) : SubSeq(t, k + 1, k + Len(D)) = D

\* What the third pass put in the place of the first [[X]] of the text.
DigestAt(pq) == SubSeq(hist[4], pq[1], pq[1] + 31)

\* C8: the third pass replaces every [[X]], delimiters included, by 32
\* lowercase hexadecimal digits, the MD5 digest of X, which are the same for
\* the same X.
C8_Replaced ==
  (pc = "inline" /\ pass >= 3) =>
    /\ Occurrences(hist[3], <<"[", "[">>, <<"]", "]">>) = {} => hist[4] = hist[3]
    /\ \A pq \in FirstOccurrence(hist[3], <<"[", "[">>, <<"]", "]">>) :
         LET X == SubSeq(hist[3], pq[1] + 2, pq[2] - 1)
             post == SubSeq(hist[3], pq[2] + 2, Len(hist[3]))
         IN  /\ hist[4] = SubSeq(hist[3], 1, pq[1] - 1) \o DigestAt(pq) \o HashPass(post)
             /\ Len(DigestAt(pq)) = 32
             /\ \A k \in 1..32 : DigestAt(pq)[k] \in LowerHex
             /\ KnownDigest(X) # <<>> => DigestAt(pq) = KnownDigest(X)
             /\ \A rs \in FirstOccurrence(post, <<"[", "[">>, <<"]", "]">>) :
                  SubSeq(post, rs[1] + 2, rs[2] - 1) = X =>
                    SubSeq(HashPass(post), rs[1], rs[1] + 31) = DigestAt(pq)

\* C8 happens: a text with [[a]] twice has been through the third pass.
C8_Witness ==
  /\ pc = "inline"
  /\ pass = 3
  /\ hist[3] = <<"[", "[", "a", "]", "]", "[", "[", "a", "]", "]">>
  /\ text = KnownDigest(<<"a">>) \o KnownDigest(<<"a">>)

\* C8 as claimed, where it goes further: the text X of a span [[X]] never
\* occurs in what the pass puts in its place.
C8_TextNeverInOutput ==
  (pc = "inline" /\ pass >= 3) =>
    \A pq \in FirstOccurrence(hist[3], <<"[", "[">>, <<"]", "]">>) :
      pq[2] > pq[1] + 2 =>
        ~OccursIn(SubSeq(hist[3], pq[1] + 2, pq[2] - 1), DigestAt(pq))

\* One of the four patterns has a complete match in the text.
AnyMatch(t) ==
  \/ Occurrences(t, Stars, Stars) # {}
  \/ Occurrences(t, Unders, Unders) # {}
  \/ Occurrences(t, <<"[", "[">>, <<"]", "]">>) # {}
  \/ Occurrences(t, <<"(", "(">>, <<")", ")">>) # {}

\* C9: a text in which none of the four patterns has a complete match comes
\* out of every pass as it went in.
C9_NoMatchUnchanged ==
  (pc = "inline" /\ ~AnyMatch(hist[1])) => \A k \in 1..Len(hist) : hist[k] = hist[1]

\* C9 happens: a text with an opening "**" and no second "**", and with no
\* other match, has been through the four passes.
C9_Witness ==
  /\ pc = "inline"
  /\ pass = 4
  /\ ~AnyMatch(hist[1])
  /\ \E p \in 1..Len(hist[1]) : StartsAt(hist[1], p, Stars)
  /\ \E p \in 1..Len(hist[1]) : StartsAt(hist[1], p, <<"(", "(">>)

TagAt(t, p) ==
  IF StartsAt(t, p, <<"<", "b", ">">>) THEN "b"
  ELSE IF StartsAt(t, p, <<"<", "/", "b", ">">>) THEN "/b"
  ELSE IF StartsAt(t, p, <<"<", "e", "m", ">">>) THEN "em"
  ELSE IF StartsAt(t, p, <<"<", "/", "e", "m", ">">>) THEN "/em"
  ELSE ""

\* The tags of a text, from left to right.
TagSeq(t) ==
  Bind({p \in 1..Len(t) : TagAt(t, p) # ""}, LAMBDA P :
    [k \in 1..Cardinality(P) |->
       TagAt(t, CHOOSE p \in P : Cardinality({q \in P : q < p}) = k - 1)])

\* The tags from the k-th on close the open elements of the stack, and
\* their own, innermost first.
RECURSIVE Nested(_, _, _)
Nested(tags, k, open) ==
  IF k > Len(tags) THEN open = <<>>
  ELSE IF tags[k] \in {"b", "em"} THEN Nested(tags, k + 1, Append(open, tags[k]))
  ELSE /\ open # <<>>
       /\ tags[k] = "/" \o open[Len(open)]
       /\ Nested(tags, k + 1, SubSeq(open, 1, Len(open) - 1))

\* C14: the spans that the passes match do not partially overlap, so that
\* the <b>...</b> and <em>...</em> elements in the text after the emphasis
\* pass, and in the text returned, are properly nested or disjoint.
C14_TagsNested ==
  /\ (pc = "inline" /\ pass >= 2) => Nested(TagSeq(hist[3]), 1, <<>>)
  /\ (pc = "inline" /\ pass = 4) => Nested(TagSeq(text), 1, <<>>)

\* The MD5 digests of "<b>a</b>" and of "b", as md5sum gives them.
DigestOfBoldA ==
  << "d", "0", "d", "0", "b", "3", "7", "1", "e", "0", "7", "f", "a", "a", "3", "5", "4", "7", "8", "d", "8", "d", "d", "e", "6", "7", "3", "a", "8", "c", "c", "5" >>

DigestOfB ==
  << "9", "2", "e", "b", "5", "f", "f", "e", "e", "6", "a", "e", "2", "f", "e", "c", "3", "a", "d", "7", "1", "c", "7", "7", "7", "5", "3", "1", "5", "7", "8", "f" >>

\* The delimiters of the four passes, in the order of the passes.
PassOpen == << Stars, Unders, <<"[", "[">>, <<"(", "(">> >>

PassClose == << Stars, Unders, <<"]", "]">>, <<")", ")">> >>

\* C15: the four substitutions are whole-text passes in the order bold,
\* emphasis, hash, strip, each on the text the pass before it left: the k-th
\* pass changes the text exactly when its pattern has a match in the
\* output of the pass before, the digest of [[X]] is that of X as the bold
\* and emphasis passes rewrote it, and the strip pass takes the "c" out of a
\* digest that the hash pass put between "((" and "))".
C15_PassOrder ==
  pc = "inline" =>
    /\ \A k \in 1..pass :
         hist[k + 1] # hist[k] <=> Occurrences(hist[k], PassOpen[k], PassClose[k]) # {}
    /\ (pass = 4 /\ hist[1] = <<"[", "[", "*", "*", "a", "*", "*", "]", "]">>) =>
         /\ hist[3] = <<"[", "[", "<", "b", ">", "a", "<", "/", "b", ">", "]", "]">>
         /\ hist[4] = DigestOfBoldA
         /\ text = DigestOfBoldA
    /\ (pass = 4 /\ hist[1] = <<"(", "(", "[", "[", "b", "]", "]", ")", ")">>) =>
         /\ hist[3] = hist[1]
         /\ hist[4] = <<"(", "(">> \o DigestOfB \o <<")", ")">>
         /\ text = WithoutC(DigestOfB)
         /\ Len(text) < 32

\* C15 happens: [[**a**]] has been through the four passes and has come out
\* as the digest of "<b>a</b>".
C15_Witness ==
  /\ pc = "inline"
  /\ pass = 4
  /\ hist[1] = <<"[", "[", "*", "*", "a", "*", "*", "]", "]">>
  /\ text = DigestOfBoldA

(***************************************************************************)
(* Properties of main().                                                   *)
(***************************************************************************)
UsageMessage == "Usage: ./markdown2html.py README.md README.html\n"

C18_OutputUntouched ==
  /\ [](pc = "exited" /\ (Len(argv) < 3 \/ fs_input = "missing") =>
          ~out_opened /\ html_file = <<>> /\ lines = <<>> /\ blocks = <<>>)
  /\ [][(pc = "main" /\ exit_code' = 1 /\ (Len(argv) < 3 \/ fs_input = "missing")) =>
          UNCHANGED <<out_opened, html_file>>]_vars

\* C18 happens: main() has ended on a missing input path, with its message
\* on stderr and the output file not opened.
C18_Witness ==
  /\ pc = "exited"
  /\ Len(argv) = 3
  /\ fs_input = "missing"
  /\ stderr = <<"Missing README.md\n">>
  /\ ~out_opened
  /\ html_file = <<>>

====
